---- MODULE Spec2Model ----
(***************************************************************************)
(* b2PrismaticJoint (src/dynamics/b2_prismatic_joint.cpp): the sequential  *)
(* impulse solver of a sliding joint, as a state machine.                  *)
(*                                                                         *)
(* Scalars are the engine's `fixed` type: an integer count of 1/Scale      *)
(* units.  Sums are exact; a product or quotient is rescaled and truncated *)
(* toward zero.  Vectors are pairs <<x, y>>, b2Vec3 is a triple.           *)
(***************************************************************************)
EXTENDS Integers, Sequences, FiniteSets, TLC

\* ------------------------------------------------------------------ bounds

\* Velocity iterations the island runs in one step.
MaxIters == 2
\* Magnitude (in whole units) up to which a warm start carries an accumulator.
MaxImpulse == 4

\* ------------------------------------------------------- fixed-point scalars

Scale == 4
fixed_zero == 0
fixed_one == Scale
fixed_two == 2 * Scale
\* The position solver's tolerances, in 1/Scale units: lengths are measured
\* in units of two linear slops, and the angular slop is below the resolution.
b2_linearSlop == 2
b2_angularSlop == 0
\* b2_pi / 2 in 1/Scale units, truncated.
QuarterTurn == 6

TruncDiv(n, d) ==
    IF d > 0
    THEN (IF n >= 0 THEN n \div d ELSE -((-n) \div d))
    ELSE (IF n >= 0 THEN -(n \div (-d)) ELSE (-n) \div (-d))

\* fixed operator* and operator/
Mul(a, b) == TruncDiv(a * b, Scale)
Div(a, b) == TruncDiv(a * Scale, b)

b2Abs(a) == IF a > 0 THEN a ELSE -a
b2Max(a, b) == IF a > b THEN a ELSE b
b2Min(a, b) == IF a < b THEN a ELSE b
b2Clamp(a, low, high) == b2Max(low, b2Min(a, high))

RECURSIVE SqrtSearch(_, _, _)
SqrtSearch(n, lo, hi) ==
    IF lo >= hi THEN lo
    ELSE LET mid == (lo + hi + 1) \div 2
         IN IF mid * mid <= n THEN SqrtSearch(n, mid, hi)
                              ELSE SqrtSearch(n, lo, mid - 1)
\* b2Sqrt on fixed: the root of a/Scale, in 1/Scale units.
b2Sqrt(a) == SqrtSearch(a * Scale, 0, b2Max(a, Scale))

\* ------------------------------------------------------------------ vectors

Vec2Zero == <<0, 0>>
VAdd(a, b) == <<a[1] + b[1], a[2] + b[2]>>
VSub(a, b) == <<a[1] - b[1], a[2] - b[2]>>
VNeg(a) == <<-a[1], -a[2]>>
\* s * v
VScale(s, v) == <<Mul(s, v[1]), Mul(s, v[2])>>
b2Dot(a, b) == Mul(a[1], b[1]) + Mul(a[2], b[2])
\* b2Cross(b2Vec2, b2Vec2)
b2Cross(a, b) == Mul(a[1], b[2]) - Mul(a[2], b[1])
\* b2Cross(fixed, b2Vec2)
b2CrossSV(s, a) == <<Mul(-s, a[2]), Mul(s, a[1])>>

\* b2Vec2::Normalize
Normalize(v) ==
    LET length == b2Sqrt(Mul(v[1], v[1]) + Mul(v[2], v[2]))
    IN IF length < 1 THEN v
       ELSE LET invLength == Div(fixed_one, length)
            IN <<Mul(v[1], invLength), Mul(v[2], invLength)>>

\* b2Rot(angle) = [s |-> sin, c |-> cos], for the angles the solver is fed.
b2Rot(angle) ==
    CASE angle = 0 -> [s |-> 0, c |-> fixed_one]
      [] angle = QuarterTurn -> [s |-> fixed_one, c |-> 0]
\* b2Mul(b2Rot, b2Vec2)
b2MulRot(q, v) ==
    <<Mul(q.c, v[1]) - Mul(q.s, v[2]), Mul(q.s, v[1]) + Mul(q.c, v[2])>>

\* b2Mat22::Solve: K = <<ex, ey>> by columns.
Solve22(K, b) ==
    LET a11 == K[1][1]
        a12 == K[2][1]
        a21 == K[1][2]
        a22 == K[2][2]
        det0 == Mul(a11, a22) - Mul(a12, a21)
        det == IF det0 # 0 THEN Div(fixed_one, det0) ELSE det0
    IN <<Mul(det, Mul(a22, b[1]) - Mul(a12, b[2])),
         Mul(det, Mul(a11, b[2]) - Mul(a21, b[1]))>>

Dot3(a, b) == Mul(a[1], b[1]) + Mul(a[2], b[2]) + Mul(a[3], b[3])
Cross3(a, b) ==
    <<Mul(a[2], b[3]) - Mul(a[3], b[2]),
      Mul(a[3], b[1]) - Mul(a[1], b[3]),
      Mul(a[1], b[2]) - Mul(a[2], b[1])>>
\* b2Mat33::Solve33: K = <<ex, ey, ez>> by columns.
Solve33(K, b) ==
    LET det0 == Dot3(K[1], Cross3(K[2], K[3]))
        det == IF det0 # 0 THEN Div(fixed_one, det0) ELSE det0
    IN <<Mul(det, Dot3(b, Cross3(K[2], K[3]))),
         Mul(det, Dot3(K[1], Cross3(b, K[3]))),
         Mul(det, Dot3(K[1], Cross3(K[2], b)))>>

\* -------------------------------------------------------------------- state

VARIABLES
    joint,       \* the b2PrismaticJoint's fields
    awake,       \* <<body A awake, body B awake>>
    velocities,  \* data.velocities: one [v, w] per island index
    positions,   \* data.positions: one [c, a] per island index
    step,        \* data.step of the step being solved
    phase,       \* where the island is: "idle", "velocity" or "position"
    iters,       \* velocity iterations run in this step
    inv_dt0,     \* the inverse of the previous step's dt, zero before any
    call,        \* the last call made on the joint, with what it observed
    limitCycle   \* EnableLimit(false) directly followed by EnableLimit(true)

vars ==
    <<joint, awake, velocities, positions, step, inv_dt0, phase, iters, call,
      limitCycle>>

\* ------------------------------------------------------------------- inputs

\* b2PrismaticJointDef values a joint is created with or later set to.
DefAxes == {<<2 * Scale, 0>>}
LimitPairs == {<<-Scale, Scale>>, <<Scale - 1, Scale + 1>>}
MotorSpeeds == {-Scale, 2 * Scale}
MotorForces == {Scale, 2 * Scale}

\* What the island hands to a step: body A's angle (its centre is the origin),
\* body B's centre, both bodies' velocities [v, w], and the bodies'
\* <<invMassA, invIA, invMassB, invIB>>.

\* two immovable bodies
ImmovablePair ==
    [aA |-> 0, cB |-> <<Scale, 0>>,
     vel |-> <<[v |-> Vec2Zero, w |-> 0], [v |-> <<Scale, 0>>, w |-> 0]>>,
     mass |-> <<0, 0, 0, 0>>]
\* a static body A, body B sliding up the axis
StaticAndSlider ==
    [aA |-> 0, cB |-> <<Scale, 0>>,
     vel |-> <<[v |-> Vec2Zero, w |-> 0], [v |-> <<Scale, 0>>, w |-> 0]>>,
     mass |-> <<0, 0, Scale, Scale>>]
\* two dynamic bodies, body B off the axis, sliding down it and spinning
OffAxisPair ==
    [aA |-> 0, cB |-> <<-Scale, Scale>>,
     vel |-> <<[v |-> <<0, Scale>>, w |-> 0], [v |-> <<-Scale, Scale>>, w |-> Scale]>>,
     mass |-> <<Scale, Scale, 2 * Scale, 0>>]
\* body A turned a quarter, two dynamic bodies, body B sliding up the axis
TurnedPair ==
    [aA |-> QuarterTurn, cB |-> <<0, Scale>>,
     vel |-> <<[v |-> Vec2Zero, w |-> 0], [v |-> <<0, 2 * Scale>>, w |-> 0]>>,
     mass |-> <<Scale, Scale, 2 * Scale, 0>>]

Scenes == {StaticAndSlider}
KinematicScenes == {ImmovablePair, StaticAndSlider}
DynamicScenes == {OffAxisPair, TurnedPair}

\* The lengths dt a step can have: one length, or a longer step among them.
SteadyLengths == {Scale}
StepLengths == {Scale, 2 * Scale}

\* b2TimeStep of a step of length dt: inv_dt, dtRatio = dt / previous dt, and
\* whether the solver warm starts.
TimeStep(dt, warmStarting) ==
    [dt |-> dt, inv_dt |-> Div(fixed_one, dt), dtRatio |-> Mul(inv_dt0, dt),
     warmStarting |-> warmStarting]

NoVelocities == <<[v |-> Vec2Zero, w |-> 0], [v |-> Vec2Zero, w |-> 0]>>
NoPositions == <<[c |-> Vec2Zero, a |-> 0], [c |-> Vec2Zero, a |-> 0]>>
NoCall == [op |-> "none"]
NoStep == [dt |-> 0, inv_dt |-> 0, dtRatio |-> 0, warmStarting |-> FALSE]
NoCycle == [stage |-> "none", hadImpulse |-> FALSE]

\* ------------------------------------------------------------- construction

\* b2PrismaticJoint::b2PrismaticJoint.  The fields the constructor leaves
\* unset (cached body data, lever arms, m_K) are read only after
\* InitVelocityConstraints has written them; they start at zero here.
NewJoint(def) ==
    LET xAxis == Normalize(def.localAxisA)
    IN [m_localAnchorA |-> def.localAnchorA,
        m_localAnchorB |-> def.localAnchorB,
        m_localXAxisA |-> xAxis,
        m_localYAxisA |-> b2CrossSV(fixed_one, xAxis),
        m_referenceAngle |-> def.referenceAngle,
        m_impulse |-> Vec2Zero,
        m_axialMass |-> fixed_zero,
        m_motorImpulse |-> fixed_zero,
        m_lowerImpulse |-> fixed_zero,
        m_upperImpulse |-> fixed_zero,
        m_lowerTranslation |-> def.lowerTranslation,
        m_upperTranslation |-> def.upperTranslation,
        m_maxMotorForce |-> def.maxMotorForce,
        m_motorSpeed |-> def.motorSpeed,
        m_enableLimit |-> def.enableLimit,
        m_enableMotor |-> def.enableMotor,
        m_translation |-> fixed_zero,
        m_axis |-> Vec2Zero,
        m_perp |-> Vec2Zero,
        m_indexA |-> 1, m_indexB |-> 2,
        m_localCenterA |-> Vec2Zero, m_localCenterB |-> Vec2Zero,
        m_invMassA |-> 0, m_invMassB |-> 0, m_invIA |-> 0, m_invIB |-> 0,
        m_a1 |-> 0, m_a2 |-> 0, m_s1 |-> 0, m_s2 |-> 0,
        m_K |-> <<Vec2Zero, Vec2Zero>>]

Defs ==
    {[localAnchorA |-> Vec2Zero, localAnchorB |-> Vec2Zero, localAxisA |-> ax,
      referenceAngle |-> 0, lowerTranslation |-> lim[1],
      upperTranslation |-> lim[2], maxMotorForce |-> f, motorSpeed |-> sp,
      enableLimit |-> el, enableMotor |-> em] :
        ax \in DefAxes, lim \in LimitPairs, f \in MotorForces,
        sp \in MotorSpeeds, el \in BOOLEAN, em \in BOOLEAN}

Init ==
    /\ \E def \in Defs :
          /\ def.lowerTranslation <= def.upperTranslation
          /\ joint = NewJoint(def)
    /\ awake = <<TRUE, TRUE>>
    /\ velocities = NoVelocities
    /\ positions = NoPositions
    /\ step = NoStep
    /\ inv_dt0 = fixed_zero
    /\ phase = "idle"
    /\ iters = 0
    /\ call = NoCall
    /\ limitCycle = NoCycle

\* ------------------------------------------------- InitVelocityConstraints

\* A mutant of AxialMass: the identity fallback of the block matrix's k22.
AxialMassFloored(k) == IF k > fixed_zero THEN Div(fixed_one, k) ELSE fixed_one

\* Lines 152-155: the axial effective mass, inverted only when positive.
AxialMass(k) == IF k > fixed_zero THEN Div(fixed_one, k) ELSE k

\* Line 151: the axial effective inverse mass of the cached Jacobian.
AxialInverseMass(mA, mB, iA, iB, a1, a2) ==
    mA + mB + Mul(Mul(iA, a1), a1) + Mul(Mul(iB, a2), a2)

\* A warm start carries an accumulator only while it is in the model's range.
InRange(x) == b2Abs(x) <= MaxImpulse * Scale

\* The joint after lines 116-191: cached body data, Jacobians, effective
\* masses, and the accumulators of a disabled feature cleared.
InitGeometry(j, pos, mass) ==
    LET cA == pos[1].c
        aA == pos[1].a
        cB == pos[2].c
        aB == pos[2].a
        qA == b2Rot(aA)
        qB == b2Rot(aB)
        rA == b2MulRot(qA, VSub(j.m_localAnchorA, Vec2Zero))
        rB == b2MulRot(qB, VSub(j.m_localAnchorB, Vec2Zero))
        d == VAdd(VSub(cB, cA), VSub(rB, rA))
        mA == mass[1]
        iA == mass[2]
        mB == mass[3]
        iB == mass[4]
        axis == b2MulRot(qA, j.m_localXAxisA)
        a1 == b2Cross(VAdd(d, rA), axis)
        a2 == b2Cross(rB, axis)
        perp == b2MulRot(qA, j.m_localYAxisA)
        s1 == b2Cross(VAdd(d, rA), perp)
        s2 == b2Cross(rB, perp)
        k11 == mA + mB + Mul(Mul(iA, s1), s1) + Mul(Mul(iB, s2), s2)
        k12 == Mul(iA, s1) + Mul(iB, s2)
        k22 == IF iA + iB = fixed_zero THEN fixed_one ELSE iA + iB
    IN [j EXCEPT
          !.m_indexA = 1, !.m_indexB = 2,
          !.m_localCenterA = Vec2Zero, !.m_localCenterB = Vec2Zero,
          !.m_invMassA = mA, !.m_invMassB = mB,
          !.m_invIA = iA, !.m_invIB = iB,
          !.m_axis = axis, !.m_a1 = a1, !.m_a2 = a2,
          !.m_axialMass = AxialMass(AxialInverseMass(mA, mB, iA, iB, a1, a2)),
          !.m_perp = perp, !.m_s1 = s1, !.m_s2 = s2,
          !.m_K = <<<<k11, k12>>, <<k12, k22>>>>,
          !.m_translation =
              IF j.m_enableLimit THEN b2Dot(axis, d) ELSE j.m_translation,
          !.m_lowerImpulse =
              IF j.m_enableLimit THEN j.m_lowerImpulse ELSE fixed_zero,
          !.m_upperImpulse =
              IF j.m_enableLimit THEN j.m_upperImpulse ELSE fixed_zero,
          !.m_motorImpulse =
              IF j.m_enableMotor = FALSE THEN fixed_zero ELSE j.m_motorImpulse]

\* Lines 193-218: the accumulators rescaled by dtRatio under warm starting,
\* cleared without it.
WarmStartImpulses(j, st) ==
    IF st.warmStarting
    THEN [j EXCEPT
            !.m_impulse = VScale(st.dtRatio, j.m_impulse),
            !.m_motorImpulse = Mul(j.m_motorImpulse, st.dtRatio),
            !.m_lowerImpulse = Mul(j.m_lowerImpulse, st.dtRatio),
            !.m_upperImpulse = Mul(j.m_upperImpulse, st.dtRatio)]
    ELSE [j EXCEPT
            !.m_impulse = Vec2Zero,
            !.m_motorImpulse = fixed_zero,
            !.m_lowerImpulse = fixed_zero,
            !.m_upperImpulse = fixed_zero]

\* Line 201: the axial impulse the joint applies to body B.
AxialImpulse(j) == j.m_motorImpulse + j.m_lowerImpulse - j.m_upperImpulse

\* Lines 201-210 and 220-223: the velocities after the warm start is applied.
WarmStartVelocities(j, st, vel) ==
    IF st.warmStarting
    THEN LET axialImpulse == AxialImpulse(j)
             P == VAdd(VScale(j.m_impulse[1], j.m_perp), VScale(axialImpulse, j.m_axis))
             LA == Mul(j.m_impulse[1], j.m_s1) + j.m_impulse[2] + Mul(axialImpulse, j.m_a1)
             LB == Mul(j.m_impulse[1], j.m_s2) + j.m_impulse[2] + Mul(axialImpulse, j.m_a2)
         IN <<[v |-> VSub(vel[1].v, VScale(j.m_invMassA, P)),
               w |-> vel[1].w - Mul(j.m_invIA, LA)],
              [v |-> VAdd(vel[2].v, VScale(j.m_invMassB, P)),
               w |-> vel[2].w + Mul(j.m_invIB, LB)]>>
    ELSE vel

\* What a call did to the velocities it was given.
Delta(old, new) ==
    [dvA |-> VSub(new[1].v, old[1].v), dwA |-> new[1].w - old[1].w,
     dvB |-> VSub(new[2].v, old[2].v), dwB |-> new[2].w - old[2].w]

Accumulators(j) ==
    [motor |-> j.m_motorImpulse, lower |-> j.m_lowerImpulse,
     upper |-> j.m_upperImpulse]

InitVelocityConstraints(sc, st) ==
    /\ phase = "idle"
    /\ awake[1] \/ awake[2]
    /\ LET pos == <<[c |-> Vec2Zero, a |-> sc.aA], [c |-> sc.cB, a |-> 0]>>
           j1 == WarmStartImpulses(InitGeometry(joint, pos, sc.mass), st)
           vel1 == WarmStartVelocities(j1, st, sc.vel)
       IN /\ InRange(j1.m_impulse[1]) /\ InRange(j1.m_impulse[2])
          /\ InRange(j1.m_motorImpulse)
          /\ InRange(j1.m_lowerImpulse) /\ InRange(j1.m_upperImpulse)
          /\ joint' = j1
          /\ velocities' = vel1
          /\ positions' = pos
          /\ step' = st
          /\ call' = [op |-> "InitVelocityConstraints",
                      afterCycle |-> (limitCycle.stage = "reenabled"),
                      hadImpulse |-> limitCycle.hadImpulse,
                      total |-> Delta(sc.vel, vel1)]
    /\ phase' = "velocity"
    /\ iters' = 0
    /\ limitCycle' = NoCycle
    /\ UNCHANGED <<awake, inv_dt0>>

\* ------------------------------------------------ SolveVelocityConstraints

\* A mutant of ApplyImpulse: body B pushed the way body A is.
ApplyImpulseOneWay(j, vel, P, LA, LB) ==
    <<[v |-> VSub(vel[1].v, VScale(j.m_invMassA, P)),
       w |-> vel[1].w - Mul(j.m_invIA, LA)],
      [v |-> VSub(vel[2].v, VScale(j.m_invMassB, P)),
       w |-> vel[2].w + Mul(j.m_invIB, LB)]>>

\* vA -= mA * P; wA -= iA * LA; vB += mB * P; wB += iB * LB
ApplyImpulse(j, vel, P, LA, LB) ==
    <<[v |-> VSub(vel[1].v, VScale(j.m_invMassA, P)),
       w |-> vel[1].w - Mul(j.m_invIA, LA)],
      [v |-> VAdd(vel[2].v, VScale(j.m_invMassB, P)),
       w |-> vel[2].w + Mul(j.m_invIB, LB)]>>

\* A mutant of MotorAccumulate: the increment clamped, not the total.
MotorAccumulateIncrement(old, impulse, maxImpulse) ==
    old + b2Clamp(impulse, -maxImpulse, maxImpulse)

\* Line 243: the motor accumulator after an increment.
MotorAccumulate(old, impulse, maxImpulse) ==
    b2Clamp(old + impulse, -maxImpulse, maxImpulse)

\* A mutant of LimitAccumulate: the accumulator left unclamped.
LimitAccumulateFree(old, impulse) == old + impulse

\* Lines 264 and 285: a limit accumulator after an increment.
LimitAccumulate(old, impulse) == b2Max(old + impulse, fixed_zero)

\* Cdot of the axial constraint: b2Dot(m_axis, vB - vA) + m_a2 * wB - m_a1 * wA
AxialCdot(j, vel) ==
    b2Dot(j.m_axis, VSub(vel[2].v, vel[1].v))
        + Mul(j.m_a2, vel[2].w) - Mul(j.m_a1, vel[1].w)

\* Lines 237-254.  s = [j |-> joint, vel |-> velocities].
SolveMotor(s, st) ==
    IF s.j.m_enableMotor
    THEN LET j == s.j
             Cdot == AxialCdot(j, s.vel)
             impulse0 == Mul(j.m_axialMass, j.m_motorSpeed - Cdot)
             oldImpulse == j.m_motorImpulse
             maxImpulse == Mul(st.dt, j.m_maxMotorForce)
             newImpulse == MotorAccumulate(j.m_motorImpulse, impulse0, maxImpulse)
             impulse == newImpulse - oldImpulse
             P == VScale(impulse, j.m_axis)
             LA == Mul(impulse, j.m_a1)
             LB == Mul(impulse, j.m_a2)
         IN [j |-> [j EXCEPT !.m_motorImpulse = newImpulse],
             vel |-> ApplyImpulse(j, s.vel, P, LA, LB)]
    ELSE s

\* Lines 258-275.
SolveLowerLimit(s, st) ==
    IF s.j.m_enableLimit
    THEN LET j == s.j
             C == j.m_translation - j.m_lowerTranslation
             Cdot == AxialCdot(j, s.vel)
             impulse0 == Mul(-j.m_axialMass,
                             Cdot + Mul(b2Max(C, fixed_zero), st.inv_dt))
             oldImpulse == j.m_lowerImpulse
             newImpulse == LimitAccumulate(j.m_lowerImpulse, impulse0)
             impulse == newImpulse - oldImpulse
             P == VScale(impulse, j.m_axis)
             LA == Mul(impulse, j.m_a1)
             LB == Mul(impulse, j.m_a2)
         IN [j |-> [j EXCEPT !.m_lowerImpulse = newImpulse],
             vel |-> ApplyImpulse(j, s.vel, P, LA, LB)]
    ELSE s

\* Lines 280-296: the lower limit's mirror image.
SolveUpperLimit(s, st) ==
    IF s.j.m_enableLimit
    THEN LET j == s.j
             vel == s.vel
             C == j.m_upperTranslation - j.m_translation
             Cdot == b2Dot(j.m_axis, VSub(vel[1].v, vel[2].v))
                         + Mul(j.m_a1, vel[1].w) - Mul(j.m_a2, vel[2].w)
             impulse0 == Mul(-j.m_axialMass,
                             Cdot + Mul(b2Max(C, fixed_zero), st.inv_dt))
             oldImpulse == j.m_upperImpulse
             newImpulse == LimitAccumulate(j.m_upperImpulse, impulse0)
             impulse == newImpulse - oldImpulse
             P == VScale(impulse, j.m_axis)
             LA == Mul(impulse, j.m_a1)
             LB == Mul(impulse, j.m_a2)
         IN [j |-> [j EXCEPT !.m_upperImpulse = newImpulse],
             vel |-> <<[v |-> VAdd(vel[1].v, VScale(j.m_invMassA, P)),
                        w |-> vel[1].w + Mul(j.m_invIA, LA)],
                       [v |-> VSub(vel[2].v, VScale(j.m_invMassB, P)),
                        w |-> vel[2].w - Mul(j.m_invIB, LB)]>>]
    ELSE s

\* Lines 300-317: the perpendicular and angular rows, solved as a 2x2 block.
SolveBlock(s) ==
    LET j == s.j
        vel == s.vel
        Cdot == <<b2Dot(j.m_perp, VSub(vel[2].v, vel[1].v))
                      + Mul(j.m_s2, vel[2].w) - Mul(j.m_s1, vel[1].w),
                  vel[2].w - vel[1].w>>
        df == Solve22(j.m_K, VNeg(Cdot))
        P == VScale(df[1], j.m_perp)
        LA == Mul(df[1], j.m_s1) + df[2]
        LB == Mul(df[1], j.m_s2) + df[2]
    IN [j |-> [j EXCEPT !.m_impulse = VAdd(j.m_impulse, df)],
        vel |-> ApplyImpulse(j, vel, P, LA, LB)]

SolveVelocityConstraints ==
    /\ phase = "velocity"
    /\ iters < MaxIters
    /\ LET s0 == [j |-> joint, vel |-> velocities]
           s1 == SolveMotor(s0, step)
           s2 == SolveLowerLimit(s1, step)
           s3 == SolveUpperLimit(s2, step)
           s4 == SolveBlock(s3)
       IN /\ joint' = s4.j
          /\ velocities' = s4.vel
          /\ call' = [op |-> "SolveVelocityConstraints",
                      motor |-> Delta(s0.vel, s1.vel),
                      lower |-> Delta(s1.vel, s2.vel),
                      upper |-> Delta(s2.vel, s3.vel),
                      block |-> Delta(s3.vel, s4.vel),
                      total |-> Delta(s0.vel, s4.vel),
                      axial |-> Delta(s0.vel, s3.vel),
                      before |-> Accumulators(joint)]
    /\ iters' = iters + 1
    /\ UNCHANGED <<awake, positions, step, inv_dt0, phase, limitCycle>>

\* ------------------------------------------------ SolvePositionConstraints

\* A mutant of LimitState: the limit rows without the narrow-band branch.
LimitStateNoBand(j, translation, linearError) ==
    IF translation <= j.m_lowerTranslation
    THEN [active |-> TRUE,
          C2 |-> b2Min(translation - j.m_lowerTranslation, fixed_zero),
          linearError |-> b2Max(linearError, j.m_lowerTranslation - translation)]
    ELSE IF translation >= j.m_upperTranslation
    THEN [active |-> TRUE,
          C2 |-> b2Max(translation - j.m_upperTranslation, fixed_zero),
          linearError |-> b2Max(linearError, translation - j.m_upperTranslation)]
    ELSE [active |-> FALSE, C2 |-> fixed_zero, linearError |-> linearError]

\* Lines 370-387: whether the limit row is solved, its error C2, and the
\* linear error the call reports on.
LimitState(j, translation, linearError) ==
    IF b2Abs(j.m_upperTranslation - j.m_lowerTranslation)
           < Mul(fixed_two, b2_linearSlop)
    THEN [active |-> TRUE,
          C2 |-> translation,
          linearError |-> b2Max(linearError, b2Abs(translation))]
    ELSE IF translation <= j.m_lowerTranslation
    THEN [active |-> TRUE,
          C2 |-> b2Min(translation - j.m_lowerTranslation, fixed_zero),
          linearError |-> b2Max(linearError, j.m_lowerTranslation - translation)]
    ELSE IF translation >= j.m_upperTranslation
    THEN [active |-> TRUE,
          C2 |-> b2Max(translation - j.m_upperTranslation, fixed_zero),
          linearError |-> b2Max(linearError, translation - j.m_upperTranslation)]
    ELSE [active |-> FALSE, C2 |-> fixed_zero, linearError |-> linearError]

\* Lines 390-434: the pseudo impulse, from the 3x3 system when the limit row
\* is solved and from the 2x2 system otherwise.  lim is the LimitState.
PositionImpulse(j, s1, s2, a1, a2, C1, lim) ==
    LET mA == j.m_invMassA
        mB == j.m_invMassB
        iA == j.m_invIA
        iB == j.m_invIB
        k11 == mA + mB + Mul(Mul(iA, s1), s1) + Mul(Mul(iB, s2), s2)
        k12 == Mul(iA, s1) + Mul(iB, s2)
        k13 == Mul(Mul(iA, s1), a1) + Mul(Mul(iB, s2), a2)
        k22 == IF iA + iB = fixed_zero THEN fixed_one ELSE iA + iB
        k23 == Mul(iA, a1) + Mul(iB, a2)
        k33 == mA + mB + Mul(Mul(iA, a1), a1) + Mul(Mul(iB, a2), a2)
    IN IF lim.active
       THEN Solve33(<<<<k11, k12, k13>>, <<k12, k22, k23>>, <<k13, k23, k33>>>>,
                    <<-C1[1], -C1[2], -lim.C2>>)
       ELSE LET impulse1 == Solve22(<<<<k11, k12>>, <<k12, k22>>>>, VNeg(C1))
            IN <<impulse1[1], impulse1[2], fixed_zero>>

\* Lines 436-450: the positions corrected by the pseudo impulse, the value
\* returned, and what the call computed on the way.
PositionCorrect(j, pos, g, lim, impulse) ==
    LET P == VAdd(VScale(impulse[1], g.perp), VScale(impulse[3], g.axis))
        LA == Mul(impulse[1], g.s1) + impulse[2] + Mul(impulse[3], g.a1)
        LB == Mul(impulse[1], g.s2) + impulse[2] + Mul(impulse[3], g.a2)
    IN [positions |->
            <<[c |-> VSub(pos[1].c, VScale(j.m_invMassA, P)),
               a |-> pos[1].a - Mul(j.m_invIA, LA)],
              [c |-> VAdd(pos[2].c, VScale(j.m_invMassB, P)),
               a |-> pos[2].a + Mul(j.m_invIB, LB)]>>,
        result |-> (lim.linearError <= b2_linearSlop
                        /\ b2Abs(g.C1[2]) <= b2_angularSlop),
        active |-> lim.active,
        solve |-> IF lim.active THEN "3x3" ELSE "2x2",
        impulse |-> impulse,
        C1 |-> g.C1,
        C2 |-> lim.C2,
        translation |-> g.translation]

\* Lines 334-363 and 369: the fresh Jacobians and the errors of the
\* perpendicular and angular rows.
PositionGeometry(j, pos) ==
    LET cA == pos[1].c
        aA == pos[1].a
        cB == pos[2].c
        aB == pos[2].a
        qA == b2Rot(aA)
        qB == b2Rot(aB)
        rA == b2MulRot(qA, VSub(j.m_localAnchorA, j.m_localCenterA))
        rB == b2MulRot(qB, VSub(j.m_localAnchorB, j.m_localCenterB))
        d == VSub(VSub(VAdd(cB, rB), cA), rA)
        axis == b2MulRot(qA, j.m_localXAxisA)
        perp == b2MulRot(qA, j.m_localYAxisA)
    IN [axis |-> axis,
        a1 |-> b2Cross(VAdd(d, rA), axis),
        a2 |-> b2Cross(rB, axis),
        perp |-> perp,
        s1 |-> b2Cross(VAdd(d, rA), perp),
        s2 |-> b2Cross(rB, perp),
        C1 |-> <<b2Dot(perp, d), aB - aA - j.m_referenceAngle>>,
        translation |-> b2Dot(axis, d)]

\* Lines 365-388: the limit row of the system, none with the limit disabled.
PositionLimit(j, g) ==
    IF j.m_enableLimit
    THEN LimitState(j, g.translation, b2Abs(g.C1[1]))
    ELSE [active |-> FALSE, C2 |-> fixed_zero, linearError |-> b2Abs(g.C1[1])]

PositionSolveOn(j, pos, g, lim) ==
    PositionCorrect(j, pos, g, lim,
                    PositionImpulse(j, g.s1, g.s2, g.a1, g.a2, g.C1, lim))

\* Lines 334-450 on the positions pos.
PositionSolve(j, pos) ==
    PositionSolveOn(j, pos, PositionGeometry(j, pos),
                    PositionLimit(j, PositionGeometry(j, pos)))

\* One position iteration, on the positions the island integrated.
SolvePositionConstraints(sc) ==
    /\ phase \in {"velocity", "position"}
    /\ LET pos == <<[c |-> Vec2Zero, a |-> sc.aA], [c |-> sc.cB, a |-> 0]>>
           r == PositionSolve(joint, pos)
       IN /\ positions' = r.positions
          /\ call' = [op |-> "SolvePositionConstraints",
                      result |-> r.result, active |-> r.active,
                      solve |-> r.solve, impulse |-> r.impulse,
                      C1 |-> r.C1, C2 |-> r.C2,
                      translation |-> r.translation]
    /\ phase' = "position"
    /\ UNCHANGED <<joint, awake, velocities, step, inv_dt0, iters, limitCycle>>

\* The island is done with the step.
EndStep ==
    /\ phase \in {"velocity", "position"}
    /\ phase' = "idle"
    /\ velocities' = NoVelocities
    /\ positions' = NoPositions
    /\ step' = NoStep
    /\ inv_dt0' = step.inv_dt
    /\ iters' = 0
    /\ call' = NoCall
    /\ UNCHANGED <<joint, awake, limitCycle>>

\* The island puts both bodies to sleep.
Sleep ==
    /\ phase = "idle"
    /\ awake = <<TRUE, TRUE>>
    /\ awake' = <<FALSE, FALSE>>
    /\ call' = NoCall
    /\ limitCycle' = NoCycle
    /\ UNCHANGED <<joint, velocities, positions, step, inv_dt0, phase, iters>>

\* ----------------------------------------------------------------- mutators

\* A mutant of WakeBoth: only body A is woken.
WakeOnlyA == <<TRUE, awake[2]>>

\* m_bodyA->SetAwake(true); m_bodyB->SetAwake(true);
WakeBoth == <<TRUE, TRUE>>

\* What a mutator call saw: whether it changed anything, and whether the
\* bodies were asleep when it was made.
Mutation(changed) ==
    [op |-> "mutator", changed |-> changed, asleep |-> (awake = <<FALSE, FALSE>>)]

\* A mutant of EnableLimit: the accumulators survive the toggle.
EnableLimitKeeping(flag) ==
    /\ phase = "idle"
    /\ IF flag # joint.m_enableLimit
       THEN /\ awake' = WakeBoth
            /\ joint' = [joint EXCEPT !.m_enableLimit = flag]
       ELSE UNCHANGED <<joint, awake>>
    /\ limitCycle' =
          IF flag = FALSE
          THEN [stage |-> "disabled",
                hadImpulse |-> (joint.m_lowerImpulse # fixed_zero
                                    \/ joint.m_upperImpulse # fixed_zero)]
          ELSE IF limitCycle.stage = "disabled"
          THEN [limitCycle EXCEPT !.stage = "reenabled"]
          ELSE NoCycle
    /\ call' = Mutation(flag # joint.m_enableLimit)
    /\ UNCHANGED <<velocities, positions, step, inv_dt0, phase, iters>>

\* Lines 510-520.
EnableLimit(flag) ==
    /\ phase = "idle"
    /\ IF flag # joint.m_enableLimit
       THEN /\ awake' = WakeBoth
            /\ joint' = [joint EXCEPT !.m_enableLimit = flag,
                                      !.m_lowerImpulse = fixed_zero,
                                      !.m_upperImpulse = fixed_zero]
       ELSE UNCHANGED <<joint, awake>>
    /\ limitCycle' =
          IF flag = FALSE
          THEN [stage |-> "disabled",
                hadImpulse |-> (joint.m_lowerImpulse # fixed_zero
                                    \/ joint.m_upperImpulse # fixed_zero)]
          ELSE IF limitCycle.stage = "disabled"
          THEN [limitCycle EXCEPT !.stage = "reenabled"]
          ELSE NoCycle
    /\ call' = Mutation(flag # joint.m_enableLimit)
    /\ UNCHANGED <<velocities, positions, step, inv_dt0, phase, iters>>

\* A call other than EnableLimit keeps a completed disable/enable pair.
KeepCycle == IF limitCycle.stage = "reenabled" THEN limitCycle ELSE NoCycle

\* Lines 532-544.
SetLimits(lower, upper) ==
    /\ phase = "idle"
    /\ lower <= upper
    /\ IF lower # joint.m_lowerTranslation \/ upper # joint.m_upperTranslation
       THEN /\ awake' = WakeBoth
            /\ joint' = [joint EXCEPT !.m_lowerTranslation = lower,
                                      !.m_upperTranslation = upper,
                                      !.m_lowerImpulse = fixed_zero,
                                      !.m_upperImpulse = fixed_zero]
       ELSE UNCHANGED <<joint, awake>>
    /\ limitCycle' = KeepCycle
    /\ call' = Mutation(lower # joint.m_lowerTranslation
                            \/ upper # joint.m_upperTranslation)
    /\ UNCHANGED <<velocities, positions, step, inv_dt0, phase, iters>>

\* Lines 551-559.
EnableMotor(flag) ==
    /\ phase = "idle"
    /\ IF flag # joint.m_enableMotor
       THEN /\ awake' = WakeBoth
            /\ joint' = [joint EXCEPT !.m_enableMotor = flag]
       ELSE UNCHANGED <<joint, awake>>
    /\ limitCycle' = KeepCycle
    /\ call' = Mutation(flag # joint.m_enableMotor)
    /\ UNCHANGED <<velocities, positions, step, inv_dt0, phase, iters>>

\* Lines 561-569.
SetMotorSpeed(speed) ==
    /\ phase = "idle"
    /\ IF speed # joint.m_motorSpeed
       THEN /\ awake' = WakeBoth
            /\ joint' = [joint EXCEPT !.m_motorSpeed = speed]
       ELSE UNCHANGED <<joint, awake>>
    /\ limitCycle' = KeepCycle
    /\ call' = Mutation(speed # joint.m_motorSpeed)
    /\ UNCHANGED <<velocities, positions, step, inv_dt0, phase, iters>>

\* Lines 571-579.
SetMaxMotorForce(force) ==
    /\ phase = "idle"
    /\ IF force # joint.m_maxMotorForce
       THEN /\ awake' = WakeBoth
            /\ joint' = [joint EXCEPT !.m_maxMotorForce = force]
       ELSE UNCHANGED <<joint, awake>>
    /\ limitCycle' = KeepCycle
    /\ call' = Mutation(force # joint.m_maxMotorForce)
    /\ UNCHANGED <<velocities, positions, step, inv_dt0, phase, iters>>

\* ------------------------------------------------------------------ queries

\* Line 465.
GetReactionForce(inv_dt) ==
    VScale(inv_dt,
           VAdd(VScale(joint.m_impulse[1], joint.m_perp),
                VScale(joint.m_motorImpulse + joint.m_lowerImpulse
                           + joint.m_upperImpulse,
                       joint.m_axis)))

\* Line 470.
GetReactionTorque(inv_dt) == Mul(inv_dt, joint.m_impulse[2])

\* ----------------------------------------------------------- specifications

\* A slider on a static body, stepped at one step length and reconfigured
\* through every mutator between steps; the island may fall asleep.
Next ==
    \/ \E sc \in Scenes, dt \in SteadyLengths, warmStarting \in BOOLEAN :
          InitVelocityConstraints(sc, TimeStep(dt, warmStarting))
    \/ SolveVelocityConstraints
    \/ \E sc \in Scenes : SolvePositionConstraints(sc)
    \/ EndStep
    \/ Sleep
    \/ \E flag \in BOOLEAN : EnableLimit(flag)
    \/ \E lim \in LimitPairs : SetLimits(lim[1], lim[2])
    \/ \E flag \in BOOLEAN : EnableMotor(flag)
    \/ \E speed \in MotorSpeeds : SetMotorSpeed(speed)
    \/ \E force \in MotorForces : SetMaxMotorForce(force)

Spec == Init /\ [][Next]_vars

\* A slider on a static body, stepped at changing step lengths, its limit
\* reconfigured between steps.
NextLimit ==
    \/ \E sc \in Scenes, dt \in StepLengths, warmStarting \in BOOLEAN :
          InitVelocityConstraints(sc, TimeStep(dt, warmStarting))
    \/ SolveVelocityConstraints
    \/ \E sc \in Scenes : SolvePositionConstraints(sc)
    \/ EndStep
    \/ \E flag \in BOOLEAN : EnableLimit(flag)
    \/ \E lim \in LimitPairs : SetLimits(lim[1], lim[2])

SpecLimit == Init /\ [][NextLimit]_vars

\* A joint whose bodies are movable in one step and immovable in another,
\* its motor switched and its force bound changed between steps.
NextKinematic ==
    \/ \E sc \in KinematicScenes, dt \in SteadyLengths, warmStarting \in BOOLEAN :
          InitVelocityConstraints(sc, TimeStep(dt, warmStarting))
    \/ SolveVelocityConstraints
    \/ \E sc \in KinematicScenes : SolvePositionConstraints(sc)
    \/ EndStep
    \/ \E flag \in BOOLEAN : EnableMotor(flag)
    \/ \E force \in MotorForces : SetMaxMotorForce(force)

SpecKinematic == Init /\ [][NextKinematic]_vars

\* A slider on a static body, stepped at changing step lengths, its motor
\* switched and its force bound changed between steps.
NextMotor ==
    \/ \E sc \in Scenes, dt \in StepLengths, warmStarting \in BOOLEAN :
          InitVelocityConstraints(sc, TimeStep(dt, warmStarting))
    \/ SolveVelocityConstraints
    \/ \E sc \in Scenes : SolvePositionConstraints(sc)
    \/ EndStep
    \/ \E flag \in BOOLEAN : EnableMotor(flag)
    \/ \E force \in MotorForces : SetMaxMotorForce(force)

SpecMotor == Init /\ [][NextMotor]_vars

\* A joint between two dynamic bodies, stepped at one step length as it was
\* created.
NextDynamic ==
    \/ \E sc \in DynamicScenes, dt \in SteadyLengths, warmStarting \in BOOLEAN :
          InitVelocityConstraints(sc, TimeStep(dt, warmStarting))
    \/ SolveVelocityConstraints
    \/ \E sc \in DynamicScenes : SolvePositionConstraints(sc)
    \/ EndStep

SpecDynamic == Init /\ [][NextDynamic]_vars

\* --------------------------------------------------------------- properties

\* The limit band is narrower than twice the linear slop.
NarrowBand ==
    joint.m_upperTranslation - joint.m_lowerTranslation
        < Mul(fixed_two, b2_linearSlop)

\* The linear velocity changes of one call are those of one impulse P applied
\* as -invMassA * P to body A and +invMassB * P to body B.
Balanced(d) ==
    VAdd(VScale(joint.m_invMassB, d.dvA), VScale(joint.m_invMassA, d.dvB))
        = Vec2Zero

NoDelta == [dvA |-> Vec2Zero, dwA |-> 0, dvB |-> Vec2Zero, dwB |-> 0]

\* The axial effective inverse mass the step's InitVelocityConstraints found.
StepAxialInverseMass ==
    AxialInverseMass(joint.m_invMassA, joint.m_invMassB, joint.m_invIA,
                     joint.m_invIB, joint.m_a1, joint.m_a2)

\* C1: in every reachable state a disabled motor has a zero motor impulse
\* accumulator and a disabled limit has zero lower and upper accumulators.
C1_DisabledFeatureHasNoImpulse ==
    /\ ~joint.m_enableMotor => joint.m_motorImpulse = fixed_zero
    /\ ~joint.m_enableLimit =>
          /\ joint.m_lowerImpulse = fixed_zero
          /\ joint.m_upperImpulse = fixed_zero

\* C2: the lower and upper limit impulse accumulators are never negative.
C2_LimitImpulsesNonNegative ==
    /\ joint.m_lowerImpulse >= fixed_zero
    /\ joint.m_upperImpulse >= fixed_zero

C2_Witness ==
    /\ call.op = "SolveVelocityConstraints"
    /\ joint.m_enableLimit
    /\ step.warmStarting
    /\ call.before.lower > fixed_zero
    /\ joint.m_lowerImpulse = fixed_zero

\* C3: after every SolveVelocityConstraints call made with the motor enabled,
\* the motor impulse accumulator lies within maxMotorForce * dt of zero.
C3_MotorImpulseWithinForce ==
    (call.op = "SolveVelocityConstraints" /\ joint.m_enableMotor) =>
        b2Abs(joint.m_motorImpulse) <= Mul(step.dt, joint.m_maxMotorForce)

C3_Witness ==
    /\ call.op = "SolveVelocityConstraints"
    /\ joint.m_enableMotor
    /\ iters >= 2
    /\ joint.m_motorImpulse # fixed_zero
    /\ b2Abs(joint.m_motorImpulse) = Mul(step.dt, joint.m_maxMotorForce)

\* C4: the InitVelocityConstraints call that follows EnableLimit(false) and
\* then EnableLimit(true) leaves the lower and upper accumulators zero, with
\* or without warm starting.
C4_ReenabledLimitStartsFromZero ==
    (call.op = "InitVelocityConstraints" /\ call.afterCycle) =>
        /\ joint.m_lowerImpulse = fixed_zero
        /\ joint.m_upperImpulse = fixed_zero

C4_Witness ==
    /\ call.op = "InitVelocityConstraints"
    /\ call.afterCycle
    /\ call.hadImpulse
    /\ joint.m_enableLimit
    /\ step.warmStarting

C6_MutatorsStoreAndWake ==
    [][/\ \A flag \in BOOLEAN :
             EnableLimit(flag) =>
                 IF flag = joint.m_enableLimit
                 THEN UNCHANGED <<joint, awake>>
                 ELSE awake' = <<TRUE, TRUE>> /\ joint'.m_enableLimit = flag
       /\ \A lim \in LimitPairs :
             SetLimits(lim[1], lim[2]) =>
                 IF lim[1] = joint.m_lowerTranslation
                        /\ lim[2] = joint.m_upperTranslation
                 THEN UNCHANGED <<joint, awake>>
                 ELSE /\ awake' = <<TRUE, TRUE>>
                      /\ joint'.m_lowerTranslation = lim[1]
                      /\ joint'.m_upperTranslation = lim[2]
       /\ \A flag \in BOOLEAN :
             EnableMotor(flag) =>
                 IF flag = joint.m_enableMotor
                 THEN UNCHANGED <<joint, awake>>
                 ELSE awake' = <<TRUE, TRUE>> /\ joint'.m_enableMotor = flag
       /\ \A speed \in MotorSpeeds :
             SetMotorSpeed(speed) =>
                 IF speed = joint.m_motorSpeed
                 THEN UNCHANGED <<joint, awake>>
                 ELSE awake' = <<TRUE, TRUE>> /\ joint'.m_motorSpeed = speed
       /\ \A force \in MotorForces :
             SetMaxMotorForce(force) =>
                 IF force = joint.m_maxMotorForce
                 THEN UNCHANGED <<joint, awake>>
                 ELSE awake' = <<TRUE, TRUE>> /\ joint'.m_maxMotorForce = force
      ]_vars

C6_Witness ==
    /\ call.op = "mutator"
    /\ call.changed
    /\ call.asleep
    /\ awake = <<TRUE, TRUE>>

\* C7: with the limit enabled and a narrow band, SolvePositionConstraints
\* treats the limit as active and solves the 3x3 system wherever the
\* translation is; with the limit disabled it solves the 2x2 system and the
\* axial component of the impulse is zero.
C7_NarrowBandAlwaysActive ==
    call.op = "SolvePositionConstraints" =>
        /\ (joint.m_enableLimit /\ NarrowBand) =>
              call.active /\ call.solve = "3x3"
        /\ ~joint.m_enableLimit =>
              call.solve = "2x2" /\ call.impulse[3] = fixed_zero

C7_Witness ==
    /\ call.op = "SolvePositionConstraints"
    /\ joint.m_enableLimit
    /\ NarrowBand
    /\ joint.m_lowerTranslation < call.translation
    /\ call.translation < joint.m_upperTranslation
    /\ call.solve = "3x3"

\* C8: with the limit enabled and a narrow band, the axial error is the
\* deviation of the translation from the band: zero for a translation in
\* [lower, upper], and the call then returns true when the perpendicular and
\* angular errors are within the slops.
C8_NarrowBandErrorIsDeviation ==
    (/\ call.op = "SolvePositionConstraints"
     /\ joint.m_enableLimit
     /\ NarrowBand
     /\ joint.m_lowerTranslation <= call.translation
     /\ call.translation <= joint.m_upperTranslation) =>
        /\ call.C2 = fixed_zero
        /\ (b2Abs(call.C1[1]) <= b2_linearSlop
                /\ b2Abs(call.C1[2]) <= b2_angularSlop) => call.result

\* C9 as stated: with a zero axial effective inverse mass nothing is divided
\* and a SolveVelocityConstraints call leaves the motor, lower and upper
\* accumulators and the velocities as the axial sub-solves found them.
C9_ZeroAxialMassChangesNothing ==
    (call.op = "SolveVelocityConstraints" /\ StepAxialInverseMass = fixed_zero) =>
        /\ joint.m_axialMass = fixed_zero
        /\ Accumulators(joint) = call.before
        /\ call.axial = NoDelta

\* C9, amended: with a zero axial effective inverse mass nothing is divided,
\* the axial sub-solves leave the velocities and the lower and upper
\* accumulators as they found them, and the motor accumulator is only
\* clamped to maxMotorForce * dt.
C9_ZeroAxialMassOnlyClamps ==
    (call.op = "SolveVelocityConstraints" /\ StepAxialInverseMass = fixed_zero) =>
        /\ joint.m_axialMass = fixed_zero
        /\ joint.m_lowerImpulse = call.before.lower
        /\ joint.m_upperImpulse = call.before.upper
        /\ joint.m_motorImpulse =
              IF joint.m_enableMotor
              THEN b2Clamp(call.before.motor,
                           -Mul(step.dt, joint.m_maxMotorForce),
                           Mul(step.dt, joint.m_maxMotorForce))
              ELSE call.before.motor
        /\ call.axial = NoDelta

C9_Witness ==
    /\ call.op = "SolveVelocityConstraints"
    /\ StepAxialInverseMass = fixed_zero
    /\ joint.m_enableMotor
    /\ joint.m_enableLimit
    /\ call.before.motor # fixed_zero
    /\ joint.m_motorImpulse # call.before.motor

\* C10: the axial component of GetReactionForce(inv_dt) is inv_dt times the
\* combination the warm start applies, motor + lower - upper.
C10_ReactionForceMatchesWarmStart ==
    \A dt \in StepLengths :
        b2Dot(GetReactionForce(Div(fixed_one, dt)), joint.m_axis)
            = b2Dot(VScale(Div(fixed_one, dt),
                           VScale(AxialImpulse(joint), joint.m_axis)),
                    joint.m_axis)

====
